---- MODULE Spec2Model ----
(***************************************************************************)
(* Model of Python_post_proc_slam: the batch pipeline of main.py (list the *)
(* .pgm files, load them and the calibration, then per image classify,     *)
(* detect edges, detect lines, draw, write the raster and optionally one   *)
(* vector document), the thresholding classifier of src/utils.py and the   *)
(* exporters of src/post_proc_slam.py.                                     *)
(*                                                                         *)
(* Numbers: a pixel is an integer 0..255 (uint8).  A float read from the   *)
(* calibration file is a rational [num, den]; t * 255 is compared exactly. *)
(* A numpy array of shape N x 1 x 4 is a sequence of N rows, each row a    *)
(* one-element sequence holding <<x1, y1, x2, y2>>.  Python's None for the *)
(* result of cv2.HoughLinesP is the record None below.                     *)
(***************************************************************************)
EXTENDS Integers, Sequences, FiniteSets, TLC

VARIABLES
    \* ---- the world main() runs in (inputs, fixed during a run) ----
    args,             \* parse_arguments(): output_format, vector_format, vector_choice
    imageDirExists,   \* whether args.image_dir exists
    dirlist,          \* os.listdir(args.image_dir): entries [name, decodable]
    yamlFile,         \* the file at args.yaml_path
    outDirInitially,  \* whether args.output_dir existed before the run
    \* ---- main()'s state ----
    pc,               \* position in main()
    errAt,            \* where the uncaught exception was raised ("" if none)
    image_paths, images, metadata, i,
    binary_image, edges, lines, floor_plan,
    houghCalls,       \* arguments of every cv2.HoughLinesP call, in order
    outDirExists,     \* whether args.output_dir exists now
    writes,           \* every file write, in order: [path, img, doc]
    trace,            \* per image, the stages invoked so far, in order
    \* ---- the classifier on its own (preprocess_image as a pure function) ----
    c_image, c_occ, c_free, c_negate, c_out, c_stage,
    \* ---- the JSON exporter on its own ----
    j_lines, j_doc, j_stage

mainVars == <<args, imageDirExists, dirlist, yamlFile, outDirInitially, pc, errAt,
              image_paths, images, metadata, i, binary_image, edges, lines,
              floor_plan, houghCalls, outDirExists, writes, trace>>
clsVars  == <<c_image, c_occ, c_free, c_negate, c_out, c_stage>>
jsonVars == <<j_lines, j_doc, j_stage>>
vars     == <<mainVars, clsVars, jsonVars>>

(***************************************************************************)
(* Bounds of the model.                                                    *)
(***************************************************************************)
\* thresholds of the stand-alone classifier range over k / ThreshDen, k in 0..ThreshDen
ThreshDen == 10
\* at most this many entries in the image directory
MaxFiles == 2
\* at most this many line segments handed to the stand-alone JSON exporter
MaxSegs == 2

(***************************************************************************)
(* Program constants.                                                      *)
(***************************************************************************)
OCCUPIED == 255
FREE == 0
UNKNOWN == 127
PixelScale == 255
CannyLow == 100
CannyHigh == 200
HoughThreshold == 40
HoughMinLineLength == 40
HoughMaxLineGap == 35
ThetaDivisor == 900
StrokeValue == 255
StrokeWidth == 2

Rat(n, d) == [num |-> n, den |-> d]
\* rho=1.7
RhoDefault == Rat(17, 10)

(***************************************************************************)
(* src/utils.py: preprocess_image                                          *)
(***************************************************************************)
\* image > t * 255, image < t * 255 ... on one pixel, t a rational
PixGt(v, t) == v * t.den > t.num * PixelScale
PixLt(v, t) == v * t.den < t.num * PixelScale
PixGe(v, t) == v * t.den >= t.num * PixelScale
PixLe(v, t) == v * t.den <= t.num * PixelScale

\* uint8 arithmetic of 255 - binary_image
U8(x) == x % 256

\* A slip the classifier could have: the negation inverts the input raster, not
\* the classified one.
preprocess_image_InvertsInput(image, occupied_thresh, free_thresh, negate) ==
    LET b1 == [p \in DOMAIN image |-> IF PixGt(image[p], occupied_thresh) THEN OCCUPIED ELSE 0]
        b2 == [p \in DOMAIN image |-> IF PixLt(image[p], free_thresh) THEN FREE ELSE b1[p]]
        b3 == [p \in DOMAIN image |->
                 IF PixGe(image[p], free_thresh) /\ PixLe(image[p], occupied_thresh)
                 THEN UNKNOWN ELSE b2[p]]
    IN  IF negate THEN [p \in DOMAIN image |-> U8(255 - image[p])] ELSE b3

\* A slip the classifier could have: the UNKNOWN band taken strictly between the
\* thresholds, so a pixel exactly on a threshold keeps the blank value 0.
preprocess_image_StrictBand(image, occupied_thresh, free_thresh, negate) ==
    LET b1 == [p \in DOMAIN image |-> IF PixGt(image[p], occupied_thresh) THEN OCCUPIED ELSE 0]
        b2 == [p \in DOMAIN image |-> IF PixLt(image[p], free_thresh) THEN FREE ELSE b1[p]]
        b3 == [p \in DOMAIN image |->
                 IF PixGt(image[p], free_thresh) /\ PixLt(image[p], occupied_thresh)
                 THEN UNKNOWN ELSE b2[p]]
    IN  IF negate THEN [p \in DOMAIN image |-> U8(255 - b3[p])] ELSE b3

\* preprocess_image: a blank image, then the three masked assignments in the
\* order of the code, then the optional inversion.
preprocess_image(image, occupied_thresh, free_thresh, negate) ==
    LET b0 == [p \in DOMAIN image |-> 0]
        b1 == [p \in DOMAIN image |-> IF PixGt(image[p], occupied_thresh) THEN OCCUPIED ELSE b0[p]]
        b2 == [p \in DOMAIN image |-> IF PixLt(image[p], free_thresh) THEN FREE ELSE b1[p]]
        b3 == [p \in DOMAIN image |->
                 IF PixGe(image[p], free_thresh) /\ PixLe(image[p], occupied_thresh)
                 THEN UNKNOWN ELSE b2[p]]
    IN  IF negate THEN [p \in DOMAIN image |-> U8(255 - b3[p])] ELSE b3

(***************************************************************************)
(* src/utils.py: validate_file_path, load_image, load_metadata,            *)
(* load_image_and_metadata.  A file name is the sequence of its            *)
(* dot-separated components: "map.v1.pgm" is <<"map", "v1", "pgm">>.       *)
(* A call returns [raised, at, value]; raised means an exception left it.  *)
(***************************************************************************)
Calibration(res, occ, free, neg) ==
    [resolution |-> res, occupied_thresh |-> occ, free_thresh |-> free, negate |-> neg]

NoMetadata == Calibration(Rat(0, 1), Rat(0, 1), Rat(0, 1), FALSE)

\* what cv2.imread yields for a decodable file: one pixel of each class
SampleRaster == <<0, 128, 255>>

Ok(v) == [raised |-> FALSE, at |-> "", value |-> v]
Raise(where, v) == [raised |-> TRUE, at |-> where, value |-> v]

\* str.endswith("." + ext)
EndsWith(name, ext) == Len(name) >= 2 /\ name[Len(name)] = ext

validate_file_path(file, valid_extensions) ==
    IF ~file.exists THEN Raise("validate_file_path", FALSE)
    ELSE IF ~(\E ext \in valid_extensions : EndsWith(file.name, ext))
         THEN Raise("validate_file_path", FALSE)
         ELSE Ok(TRUE)

\* image_path names a directory entry, which exists; imread gives None for a
\* file it cannot decode
load_image(image_path) ==
    IF validate_file_path([exists |-> TRUE, name |-> image_path.name], {"pgm"}).raised
    THEN Raise("load_image", <<>>)
    ELSE IF ~image_path.decodable THEN Raise("load_image", <<>>)
         ELSE Ok(SampleRaster)

load_metadata(yaml) ==
    IF validate_file_path(yaml, {"yaml"}).raised THEN Raise("load_metadata", NoMetadata)
    ELSE IF ~yaml.wellformed THEN Raise("load_metadata", NoMetadata)
         ELSE Ok(yaml.content)

\* A slip the loader could have: an image that fails to load is skipped and the
\* run goes on with the others (and an unreadable calibration is replaced).
load_image_and_metadata_SkipsFailures(paths, yaml) ==
    LET ok  == SelectSeq(paths, LAMBDA p : ~load_image(p).raised)
        m   == load_metadata(yaml)
    IN  Ok([images   |-> [k \in DOMAIN ok |-> load_image(ok[k]).value],
            metadata |-> IF m.raised THEN NoMetadata ELSE m.value])

\* every image is loaded first, then the calibration; the first exception
\* leaves the call
load_image_and_metadata(paths, yaml) ==
    LET imgs == [k \in DOMAIN paths |-> load_image(paths[k])]
    IN  IF \E k \in DOMAIN paths : imgs[k].raised
        THEN Raise("load_image", [images |-> <<>>, metadata |-> NoMetadata])
        ELSE LET m == load_metadata(yaml)
             IN  IF m.raised
                 THEN Raise("load_metadata", [images |-> <<>>, metadata |-> NoMetadata])
                 ELSE Ok([images   |-> [k \in DOMAIN paths |-> imgs[k].value],
                          metadata |-> m.value])

(***************************************************************************)
(* src/post_proc_slam.py: FloorPlanProcessor                               *)
(***************************************************************************)
None == [isNone |-> TRUE, rows |-> <<>>]
Array(rows) == [isNone |-> FALSE, rows |-> rows]

\* cv2.Canny is a library call: its result is the term naming the call
detect_edges(image, low_threshold, high_threshold) ==
    [canny |-> image, low |-> low_threshold, high |-> high_threshold]

\* The arguments cv2.HoughLinesP receives from detect_lines(edges, *positional):
\* a positional argument binds the next parameter after edges, the others keep
\* their defaults.
detect_lines(edge_map, positional) ==
    [edges         |-> edge_map,
     rho           |-> IF Len(positional) >= 1 THEN positional[1] ELSE RhoDefault,
     thetaDivisor  |-> ThetaDivisor,
     threshold     |-> HoughThreshold,
     minLineLength |-> HoughMinLineLength,
     maxLineGap    |-> HoughMaxLineGap]

\* cv2.HoughLinesP's Python binding: None when no segment was found, else an
\* array of shape N x 1 x 4
HoughLinesP(found) ==
    IF found = <<>> THEN None ELSE Array([k \in DOMAIN found |-> <<found[k]>>])

\* what the accumulator may find in an edge map: nothing, or the two segments
\* bounding a stripe
HoughFound == { <<>>, << <<0, 49, 99, 49>>, <<0, 52, 99, 52>> >> }

draw_floor_plan(lns, image) ==
    [shape   |-> Len(image),
     strokes |-> IF lns.isNone THEN <<>>
                 ELSE [k \in DOMAIN lns.rows |->
                         [from  |-> <<lns.rows[k][1][1], lns.rows[k][1][2]>>,
                          to    |-> <<lns.rows[k][1][3], lns.rows[k][1][4]>>,
                          value |-> StrokeValue, width |-> StrokeWidth]]]

SetMin(S) == CHOOSE x \in S : \A y \in S : x <= y
SetMax(S) == CHOOSE x \in S : \A y \in S : x >= y

\* lines[:, 0, :] raises TypeError on None; np.min / np.max need a row
export_as_svg(lns) ==
    IF lns.isNone THEN Raise("export_as_svg", <<>>)
    ELSE LET lines_ == [k \in DOMAIN lns.rows |-> lns.rows[k][1]]
             xs == {lines_[k][1] : k \in DOMAIN lines_} \cup {lines_[k][3] : k \in DOMAIN lines_}
             ys == {lines_[k][2] : k \in DOMAIN lines_} \cup {lines_[k][4] : k \in DOMAIN lines_}
         IN  IF lines_ = <<>> THEN Raise("export_as_svg", <<>>)
             ELSE Ok([size     |-> <<SetMax(xs) - SetMin(xs), SetMax(ys) - SetMin(ys)>>,
                      viewbox  |-> <<SetMin(xs), SetMin(ys),
                                     SetMax(xs) - SetMin(xs), SetMax(ys) - SetMin(ys)>>,
                      elements |-> [k \in DOMAIN lns.rows |->
                                      [start |-> <<lns.rows[k][1][1], lns.rows[k][1][2]>>,
                                       end   |-> <<lns.rows[k][1][3], lns.rows[k][1][4]>>]]])

\* A JSON document is its sequence of tokens: punctuation, a key, or a number.
Punct(s) == [k |-> "punct", s |-> s, n |-> 0]
Key(s)   == [k |-> "key", s |-> s, n |-> 0]
Num(x)   == [k |-> "num", s |-> "", n |-> x]

\* json.dump of one {'start': (a, b), 'end': (c, d)}: a tuple is written as an array
JsonObject(o) ==
    << Punct("{"),
       Key("start"), Punct(":"), Punct("["), Num(o.start[1]), Punct(","), Num(o.start[2]), Punct("]"),
       Punct(","),
       Key("end"), Punct(":"), Punct("["), Num(o.end[1]), Punct(","), Num(o.end[2]), Punct("]"),
       Punct("}") >>

RECURSIVE JsonItems(_)
JsonItems(data) ==
    IF data = <<>> THEN <<>>
    ELSE IF Len(data) = 1 THEN JsonObject(data[1])
         ELSE JsonObject(data[1]) \o <<Punct(",")>> \o JsonItems(Tail(data))

json_dump(data) == <<Punct("[")>> \o JsonItems(data) \o <<Punct("]")>>

\* A slip the exporter could have: the end point taken from the wrong columns.
export_as_json_WrongEnd(lns) ==
    IF lns.isNone THEN Raise("export_as_json", <<>>)
    ELSE LET rows == [k \in DOMAIN lns.rows |-> lns.rows[k][1]]
         IN  Ok(json_dump([k \in DOMAIN rows |->
                             [start |-> <<rows[k][1], rows[k][2]>>,
                              end   |-> <<rows[k][3], rows[k][2]>>]]))

\* lines[:, 0, :] raises TypeError on None, before the file is opened
export_as_json(lns) ==
    IF lns.isNone THEN Raise("export_as_json", <<>>)
    ELSE LET rows == [k \in DOMAIN lns.rows |-> lns.rows[k][1]]
             line_data == [k \in DOMAIN rows |->
                             [start |-> <<rows[k][1], rows[k][2]>>,
                              end   |-> <<rows[k][3], rows[k][4]>>]]
         IN  Ok(json_dump(line_data))

\* `for line in lines` raises TypeError on None, before doc.saveas
export_as_dxf(lns) ==
    IF lns.isNone THEN Raise("export_as_dxf", <<>>)
    ELSE Ok([dxfversion |-> "R2010",
             modelspace |-> [k \in DOMAIN lns.rows |->
                               [start |-> <<lns.rows[k][1][1], lns.rows[k][1][2]>>,
                                end   |-> <<lns.rows[k][1][3], lns.rows[k][1][4]>>]]])

(***************************************************************************)
(* main.py: the inputs of a run                                            *)
(***************************************************************************)
\* argparse: the choices of each option; --vector_choice is not required and
\* is None when omitted
Arguments == [output_format : {"png", "jpg"},
              vector_format : {"yes", "no"},
              vector_choice : {"svg", "json", "dxf", "None"}]

FileNames == { <<"a", "pgm">>, <<"a", "v2", "pgm">>, <<"b", "pgm">>, <<"notes", "txt">> }

DirEntries == { e \in [name : FileNames, decodable : BOOLEAN] :
                  EndsWith(e.name, "pgm") \/ e.decodable }

\* a directory lists each name once, in any order
Listings == { l \in UNION { [1..n -> DirEntries] : n \in 0..MaxFiles } :
                \A a, b \in DOMAIN l : a # b => l[a].name # l[b].name }

Calibrations == { Calibration(Rat(5, 100), Rat(65, 100), Rat(25, 100), FALSE),
                  Calibration(Rat(1, 10), Rat(65, 100), Rat(196, 1000), TRUE) }

YamlFiles ==
    { [exists |-> TRUE, name |-> <<"map", "yaml">>, wellformed |-> TRUE, content |-> c] :
        c \in Calibrations }
    \cup
    { [exists |-> FALSE, name |-> <<"map", "yaml">>, wellformed |-> TRUE, content |-> NoMetadata],
      [exists |-> TRUE,  name |-> <<"map", "yml">>,  wellformed |-> TRUE, content |-> NoMetadata],
      [exists |-> TRUE,  name |-> <<"map", "yaml">>, wellformed |-> FALSE, content |-> NoMetadata] }

NoEdges == detect_edges(<<>>, 0, 0)
NoFloorPlan == [shape |-> 0, strokes |-> <<>>]

MainStart ==
    /\ pc = "listdir" /\ errAt = ""
    /\ image_paths = <<>> /\ images = <<>> /\ metadata = NoMetadata /\ i = 0
    /\ binary_image = <<>> /\ edges = NoEdges /\ lines = None /\ floor_plan = NoFloorPlan
    /\ houghCalls = <<>> /\ writes = <<>> /\ trace = <<>>

ClassifierIdle ==
    /\ c_image = <<>> /\ c_occ = Rat(0, 1) /\ c_free = Rat(0, 1) /\ c_negate = FALSE
    /\ c_out = <<>> /\ c_stage = "idle"

JsonIdle == j_lines = None /\ j_doc = <<>> /\ j_stage = "idle"

Init ==
    /\ args \in Arguments
    /\ imageDirExists \in BOOLEAN
    /\ dirlist \in Listings
    /\ (~imageDirExists => dirlist = <<>>)
    /\ yamlFile \in YamlFiles
    /\ outDirInitially \in BOOLEAN
    /\ outDirExists = outDirInitially
    /\ MainStart
    /\ ClassifierIdle
    /\ JsonIdle

(***************************************************************************)
(* main.py: main(), one action per statement                               *)
(***************************************************************************)
world == <<args, imageDirExists, dirlist, yamlFile, outDirInitially>>
locals == <<binary_image, edges, lines, floor_plan>>

Abort(where) ==
    /\ pc' = "error"
    /\ errAt' = where

Stage(name) == trace' = [trace EXCEPT ![i] = Append(@, name)]

\* os.path.basename(image_paths[i]).split('.')[0]
image_name(path) == path.name[1]

\* line 23: os.listdir raises when the directory is missing
Main_ListImages ==
    /\ pc = "listdir"
    /\ IF imageDirExists
       THEN /\ image_paths' = SelectSeq(dirlist, LAMBDA e : EndsWith(e.name, "pgm"))
            /\ pc' = "load"
            /\ errAt' = errAt
       ELSE /\ Abort("listdir")
            /\ image_paths' = image_paths
    /\ UNCHANGED <<world, images, metadata, i, locals, houghCalls, outDirExists,
                   writes, trace, clsVars, jsonVars>>

\* lines 26-27
Main_Load ==
    /\ pc = "load"
    /\ LET r == load_image_and_metadata(image_paths, yamlFile)
       IN  IF r.raised
           THEN /\ Abort(r.at)
                /\ UNCHANGED <<images, metadata>>
           ELSE /\ images' = r.value.images
                /\ metadata' = r.value.metadata
                /\ pc' = "for"
                /\ errAt' = errAt
    /\ UNCHANGED <<world, image_paths, i, locals, houghCalls, outDirExists,
                   writes, trace, clsVars, jsonVars>>

\* line 29: the next image, or the end of the run
Main_ForNext ==
    /\ pc = "for"
    /\ i < Len(images)
    /\ i' = i + 1
    /\ trace' = Append(trace, <<>>)
    /\ pc' = "preprocess"
    /\ UNCHANGED <<world, errAt, image_paths, images, metadata, locals, houghCalls,
                   outDirExists, writes, clsVars, jsonVars>>

Main_ForEnd ==
    /\ pc = "for"
    /\ i >= Len(images)
    /\ pc' = "done"
    /\ UNCHANGED <<world, errAt, image_paths, images, metadata, i, locals, houghCalls,
                   outDirExists, writes, trace, clsVars, jsonVars>>

\* lines 31-36
Main_Preprocess ==
    /\ pc = "preprocess"
    /\ binary_image' = preprocess_image(images[i], metadata.occupied_thresh,
                                        metadata.free_thresh, metadata.negate)
    /\ Stage("classify")
    /\ pc' = "detect_edges"
    /\ UNCHANGED <<world, errAt, image_paths, images, metadata, i, edges, lines,
                   floor_plan, houghCalls, outDirExists, writes, clsVars, jsonVars>>

\* line 38
Main_DetectEdges ==
    /\ pc = "detect_edges"
    /\ edges' = detect_edges(binary_image, CannyLow, CannyHigh)
    /\ Stage("detect_edges")
    /\ pc' = "detect_lines"
    /\ UNCHANGED <<world, errAt, image_paths, images, metadata, i, binary_image, lines,
                   floor_plan, houghCalls, outDirExists, writes, clsVars, jsonVars>>

\* line 39: metadata['resolution'] is the one positional argument after edges
Main_DetectLines ==
    /\ pc = "detect_lines"
    /\ houghCalls' = Append(houghCalls, detect_lines(edges, <<metadata.resolution>>))
    /\ \E found \in HoughFound : lines' = HoughLinesP(found)
    /\ Stage("detect_lines")
    /\ pc' = "draw_floor_plan"
    /\ UNCHANGED <<world, errAt, image_paths, images, metadata, i, binary_image, edges,
                   floor_plan, outDirExists, writes, clsVars, jsonVars>>

\* line 41
Main_DrawFloorPlan ==
    /\ pc = "draw_floor_plan"
    /\ floor_plan' = draw_floor_plan(lines, images[i])
    /\ Stage("draw_floor_plan")
    /\ pc' = "makedirs"
    /\ UNCHANGED <<world, errAt, image_paths, images, metadata, i, binary_image, edges,
                   lines, houghCalls, outDirExists, writes, clsVars, jsonVars>>

\* lines 43-44
Main_MakeDirs ==
    /\ pc = "makedirs"
    /\ outDirExists' = (IF ~outDirExists THEN TRUE ELSE outDirExists)
    /\ pc' = "imwrite"
    /\ UNCHANGED <<world, errAt, image_paths, images, metadata, i, locals, houghCalls,
                   writes, trace, clsVars, jsonVars>>

\* lines 47-49
Main_WriteRaster ==
    /\ pc = "imwrite"
    /\ writes' = Append(writes,
                        [path |-> <<image_name(image_paths[i]), args.output_format>>,
                         img  |-> i, by |-> "write_raster", doc |-> floor_plan])
    /\ Stage("write_raster")
    /\ pc' = "vector"
    /\ UNCHANGED <<world, errAt, image_paths, images, metadata, i, locals, houghCalls,
                   outDirExists, clsVars, jsonVars>>

\* A slip the dispatch could have: the exporter chosen from vector_choice alone,
\* whatever vector_format says.
vector_exporter_IgnoresFormat(vector_format, vector_choice) ==
    IF vector_choice = "svg" THEN "export_as_svg"
    ELSE IF vector_choice = "json" THEN "export_as_json"
    ELSE IF vector_choice = "dxf" THEN "export_as_dxf"
    ELSE IF vector_format = "yes" THEN "ValueError" ELSE "none"

\* lines 51-62: which call the if/elif chain reaches
vector_exporter(vector_format, vector_choice) ==
    IF vector_format = "yes"
    THEN IF vector_choice = "svg" THEN "export_as_svg"
         ELSE IF vector_choice = "json" THEN "export_as_json"
         ELSE IF vector_choice = "dxf" THEN "export_as_dxf"
         ELSE "ValueError"
    ELSE "none"

Export(exporter, lns) ==
    IF exporter = "export_as_svg" THEN export_as_svg(lns)
    ELSE IF exporter = "export_as_json" THEN export_as_json(lns)
    ELSE export_as_dxf(lns)

Extension(exporter) ==
    IF exporter = "export_as_svg" THEN "svg"
    ELSE IF exporter = "export_as_json" THEN "json"
    ELSE "dxf"

\* line 51 false: no vector document for this image
Main_VectorSkip ==
    /\ pc = "vector"
    /\ vector_exporter(args.vector_format, args.vector_choice) = "none"
    /\ pc' = "for"
    /\ UNCHANGED <<world, errAt, image_paths, images, metadata, i, locals, houghCalls,
                   outDirExists, writes, trace, clsVars, jsonVars>>

\* lines 52-60: the exporter runs; it writes its file last, or raises before
Main_VectorExport ==
    /\ pc = "vector"
    /\ LET ex == vector_exporter(args.vector_format, args.vector_choice)
       IN  /\ ex \in {"export_as_svg", "export_as_json", "export_as_dxf"}
           /\ Stage(ex)
           /\ LET r == Export(ex, lines)
              IN  IF r.raised
                  THEN /\ Abort(ex)
                       /\ writes' = writes
                  ELSE /\ writes' = Append(writes,
                                           [path |-> <<image_name(image_paths[i]), Extension(ex)>>,
                                            img  |-> i, by |-> ex, doc |-> r.value])
                       /\ pc' = "for"
                       /\ errAt' = errAt
    /\ UNCHANGED <<world, image_paths, images, metadata, i, locals, houghCalls,
                   outDirExists, clsVars, jsonVars>>

\* lines 61-62
Main_VectorInvalid ==
    /\ pc = "vector"
    /\ vector_exporter(args.vector_format, args.vector_choice) = "ValueError"
    /\ Abort("vector_choice")
    /\ UNCHANGED <<world, image_paths, images, metadata, i, locals, houghCalls,
                   outDirExists, writes, trace, clsVars, jsonVars>>

Next ==
    \/ Main_ListImages
    \/ Main_Load
    \/ Main_ForNext
    \/ Main_ForEnd
    \/ Main_Preprocess
    \/ Main_DetectEdges
    \/ Main_DetectLines
    \/ Main_DrawFloorPlan
    \/ Main_MakeDirs
    \/ Main_WriteRaster
    \/ Main_VectorSkip
    \/ Main_VectorExport
    \/ Main_VectorInvalid

Spec == Init /\ [][Next]_vars

(***************************************************************************)
(* preprocess_image on its own: every pixel value, every threshold pair on *)
(* the grid k / ThreshDen (ordered or not), both values of negate; applied *)
(* once, then once more to its own output with the same arguments.         *)
(***************************************************************************)
MainIdle ==
    /\ args = [output_format |-> "png", vector_format |-> "no", vector_choice |-> "None"]
    /\ imageDirExists = FALSE /\ dirlist = <<>>
    /\ yamlFile = [exists |-> FALSE, name |-> <<"map", "yaml">>, wellformed |-> TRUE,
                   content |-> NoMetadata]
    /\ outDirInitially = FALSE /\ outDirExists = FALSE
    /\ pc = "idle" /\ errAt = ""
    /\ image_paths = <<>> /\ images = <<>> /\ metadata = NoMetadata /\ i = 0
    /\ binary_image = <<>> /\ edges = NoEdges /\ lines = None /\ floor_plan = NoFloorPlan
    /\ houghCalls = <<>> /\ writes = <<>> /\ trace = <<>>

Thresholds == { Rat(k, ThreshDen) : k \in 0..ThreshDen }

InitClassify ==
    /\ c_image \in { <<v>> : v \in 0..255 }
    /\ c_occ \in Thresholds
    /\ c_free \in Thresholds
    /\ c_negate \in BOOLEAN
    /\ c_out = <<>>
    /\ c_stage = "input"
    /\ MainIdle
    /\ JsonIdle

Classify_Apply ==
    /\ c_stage = "input"
    /\ c_out' = preprocess_image(c_image, c_occ, c_free, c_negate)
    /\ c_stage' = "once"
    /\ UNCHANGED <<c_image, c_occ, c_free, c_negate, mainVars, jsonVars>>

Classify_Reapply ==
    /\ c_stage = "once"
    /\ c_out' = preprocess_image(c_out, c_occ, c_free, c_negate)
    /\ c_stage' = "twice"
    /\ UNCHANGED <<c_image, c_occ, c_free, c_negate, mainVars, jsonVars>>

NextClassify ==
    \/ Classify_Apply
    \/ Classify_Reapply

SpecClassify == InitClassify /\ [][NextClassify]_vars

(***************************************************************************)
(* export_as_json on its own: every array of at most MaxSegs segments      *)
(* with coordinates drawn from Coords.                                     *)
(***************************************************************************)
Coords == {3, 40}

Segments == { <<x1, y1, x2, y2>> : x1 \in Coords, y1 \in Coords, x2 \in Coords, y2 \in Coords }

\* arrays of shape N x 1 x 4, N in 0..MaxSegs
SegmentArrays ==
    UNION { { Array([k \in 1..n |-> <<f[k]>>]) : f \in [1..n -> Segments] } : n \in 0..MaxSegs }

InitJson ==
    /\ j_lines \in SegmentArrays
    /\ j_doc = <<>>
    /\ j_stage = "input"
    /\ MainIdle
    /\ ClassifierIdle

Json_Export ==
    /\ j_stage = "input"
    /\ LET r == export_as_json(j_lines)
       IN  /\ ~r.raised
           /\ j_doc' = r.value
    /\ j_stage' = "written"
    /\ UNCHANGED <<j_lines, mainVars, clsVars>>

\* the file is closed and kept
Json_Close ==
    /\ j_stage = "written"
    /\ j_stage' = "closed"
    /\ UNCHANGED <<j_lines, j_doc, mainVars, clsVars>>

NextJson ==
    \/ Json_Export
    \/ Json_Close

SpecJson == InitJson /\ [][NextJson]_vars

(***************************************************************************)
(* Properties of the classifier (SpecClassify)                             *)
(***************************************************************************)
\* 0 <= free_thresh <= occupied_thresh <= 1
ValidPair(free, occ) ==
    /\ 0 <= free.num /\ occ.num <= occ.den
    /\ free.num * occ.den <= occ.num * free.den

\* the rule of the classifier's contract, per pixel
IsOccupied(v, occ) == v * occ.den > occ.num * 255
IsFree(v, free) == v * free.den < free.num * 255
RuleValue(v, occ, free) ==
    IF IsOccupied(v, occ) THEN 255 ELSE IF IsFree(v, free) THEN 0 ELSE 127
Negated(x) == IF x = 255 THEN 0 ELSE IF x = 0 THEN 255 ELSE 128

\* C1: for every pixel value, every valid threshold pair and both values of
\* negate, preprocess_image returns the rule's value (255 above the occupied
\* threshold, 0 below the free threshold, 127 otherwise; exactly one of the
\* three applies), and with negate 255 minus it (255->0, 0->255, 127->128).
C1_ClassifierAgreesWithRule ==
    (c_stage = "once" /\ ValidPair(c_free, c_occ)) =>
        LET v == c_image[1]
            r == RuleValue(v, c_occ, c_free)
        IN  /\ Len(c_out) = 1
            /\ ~(IsOccupied(v, c_occ) /\ IsFree(v, c_free))
            /\ c_out[1] = (IF c_negate THEN 255 - r ELSE r)
            /\ c_negate => c_out[1] = Negated(r)

\* C1's case: a pixel exactly on the occupied threshold, negated: UNKNOWN, 128
C1_Witness ==
    /\ c_stage = "once" /\ c_negate /\ ValidPair(c_free, c_occ)
    /\ c_image[1] * c_occ.den = c_occ.num * 255
    /\ c_image[1] > 0
    /\ c_out = <<128>>

\* C2 as stated: for every valid threshold pair, preprocess_image with negate
\* applied to the output of preprocess_image with negate returns 255 for every
\* pixel the rule classifies OCCUPIED and 0 for every pixel it classifies FREE.
C2_NegateTwiceRestores ==
    (c_stage = "twice" /\ c_negate /\ ValidPair(c_free, c_occ)) =>
        /\ IsOccupied(c_image[1], c_occ) => c_out = <<255>>
        /\ IsFree(c_image[1], c_free) => c_out = <<0>>

\* C2 amended: OCCUPIED pixels return to 255 when free_thresh > 0, and FREE
\* pixels return to 0 when occupied_thresh < 1.
C2_NegateTwiceRestoresInside ==
    (c_stage = "twice" /\ c_negate /\ ValidPair(c_free, c_occ)) =>
        /\ (IsOccupied(c_image[1], c_occ) /\ c_free.num > 0) => c_out = <<255>>
        /\ (IsFree(c_image[1], c_free) /\ c_occ.num < c_occ.den) => c_out = <<0>>

\* C2's case: an OCCUPIED pixel below 255, negated twice, back at 255
C2_Witness ==
    /\ c_stage = "twice" /\ c_negate /\ ValidPair(c_free, c_occ)
    /\ c_free.num > 0
    /\ IsOccupied(c_image[1], c_occ) /\ c_image[1] < 255
    /\ c_out = <<255>>

(***************************************************************************)
(* Properties of the JSON exporter (SpecJson)                              *)
(***************************************************************************)
TokAt(t, p) == IF p \in DOMAIN t THEN t[p] ELSE Punct("eof")

\* reading a document back: '{"start": [a, b], "end": [c, d]}' at position p
IsObjectAt(t, p) ==
    /\ TokAt(t, p) = Punct("{")
    /\ TokAt(t, p + 1) = Key("start") /\ TokAt(t, p + 2) = Punct(":")
    /\ TokAt(t, p + 3) = Punct("[") /\ TokAt(t, p + 4).k = "num"
    /\ TokAt(t, p + 5) = Punct(",") /\ TokAt(t, p + 6).k = "num"
    /\ TokAt(t, p + 7) = Punct("]") /\ TokAt(t, p + 8) = Punct(",")
    /\ TokAt(t, p + 9) = Key("end") /\ TokAt(t, p + 10) = Punct(":")
    /\ TokAt(t, p + 11) = Punct("[") /\ TokAt(t, p + 12).k = "num"
    /\ TokAt(t, p + 13) = Punct(",") /\ TokAt(t, p + 14).k = "num"
    /\ TokAt(t, p + 15) = Punct("]") /\ TokAt(t, p + 16) = Punct("}")

ObjectAt(t, p) == [start |-> <<t[p + 4].n, t[p + 6].n>>, end |-> <<t[p + 12].n, t[p + 14].n>>]

RECURSIVE ParseItems(_, _)
ParseItems(t, p) ==
    IF ~IsObjectAt(t, p) THEN [ok |-> FALSE, value |-> <<>>]
    ELSE IF p + 17 = Len(t) /\ t[p + 17] = Punct("]")
         THEN [ok |-> TRUE, value |-> <<ObjectAt(t, p)>>]
         ELSE IF TokAt(t, p + 17) = Punct(",")
              THEN LET rest == ParseItems(t, p + 18)
                   IN  [ok |-> rest.ok, value |-> <<ObjectAt(t, p)>> \o rest.value]
              ELSE [ok |-> FALSE, value |-> <<>>]

\* json.load of a document written by json.dump
json_load(t) ==
    IF t = <<Punct("["), Punct("]")>> THEN [ok |-> TRUE, value |-> <<>>]
    ELSE IF TokAt(t, 1) = Punct("[") THEN ParseItems(t, 2)
         ELSE [ok |-> FALSE, value |-> <<>>]

\* C6: for N >= 1 segments, the document export_as_json writes parses back to
\* exactly N objects, the k-th with start = [x1, y1] and end = [x2, y2] of the
\* k-th segment.
C6_JsonRoundTrip ==
    (j_stage \in {"written", "closed"} /\ Len(j_lines.rows) >= 1) =>
        LET back == json_load(j_doc)
        IN  /\ back.ok
            /\ Len(back.value) = Len(j_lines.rows)
            /\ \A k \in DOMAIN j_lines.rows :
                 /\ back.value[k].start = <<j_lines.rows[k][1][1], j_lines.rows[k][1][2]>>
                 /\ back.value[k].end = <<j_lines.rows[k][1][3], j_lines.rows[k][1][4]>>

\* C6's case: two different segments, neither with y1 = y2, written and closed
C6_Witness ==
    /\ j_stage = "closed"
    /\ Len(j_lines.rows) = 2
    /\ j_lines.rows[1] # j_lines.rows[2]
    /\ \A k \in 1..2 : j_lines.rows[k][1][2] # j_lines.rows[k][1][4]
    /\ json_load(j_doc).ok
    /\ Len(json_load(j_doc).value) = 2

(***************************************************************************)
(* Properties of the batch pipeline (Spec)                                 *)
(***************************************************************************)
RatEq(a, b) == a.num * b.den = b.num * a.den

\* C3: every call of the line extractor in the pipeline gets rho=1.7,
\* theta=pi/900, threshold=40, min_line_length=40, max_line_gap=35, whatever
\* the calibration file holds.
C3_FixedHoughParameters ==
    \A k \in DOMAIN houghCalls :
        /\ RatEq(houghCalls[k].rho, Rat(17, 10))
        /\ houghCalls[k].thetaDivisor = 900
        /\ houghCalls[k].threshold = 40
        /\ houghCalls[k].minLineLength = 40
        /\ houghCalls[k].maxLineGap = 35

NoLineFound == lines.isNone \/ lines.rows = <<>>

\* the exporter invoked for the current image, "" if none was
ExporterInvoked ==
    IF i \in DOMAIN trace /\ Len(trace[i]) >= 1
       /\ trace[i][Len(trace[i])] \in {"export_as_svg", "export_as_json", "export_as_dxf"}
    THEN trace[i][Len(trace[i])] ELSE ""

\* C4: when no line qualifies for an image and the pipeline hands the result
\* to export_as_json or export_as_dxf, the export completes without raising
\* and has written its document.
C4_EmptyResultExports ==
    (NoLineFound /\ ExporterInvoked \in {"export_as_json", "export_as_dxf"}) =>
        /\ pc # "error"
        /\ writes # <<>>
        /\ writes[Len(writes)].img = i
        /\ writes[Len(writes)].by = ExporterInvoked

\* C5: if the processing of an image ends with an error, no output file of
\* that image has been written.
C5_NoPartialOutputOnError ==
    (pc = "error" /\ i >= 1) => \A k \in DOMAIN writes : writes[k].img # i

\* C7: after a run that ends without an error the output directory exists.
C7_OutputDirCreated ==
    pc = "done" => outDirExists

\* C9: every output path is written at most once in a run.
C9_OutputsWrittenOnce ==
    \A a, b \in DOMAIN writes : a # b => writes[a].path # writes[b].path

IsPrefix(a, b) == Len(a) <= Len(b) /\ \A k \in DOMAIN a : a[k] = b[k]

\* the stages the claim expects for one image under the arguments of the run
StagesExpected ==
    <<"classify", "detect_edges", "detect_lines", "draw_floor_plan", "write_raster">>
    \o (IF args.vector_format = "yes" /\ args.vector_choice = "svg" THEN <<"export_as_svg">>
        ELSE IF args.vector_format = "yes" /\ args.vector_choice = "json" THEN <<"export_as_json">>
        ELSE IF args.vector_format = "yes" /\ args.vector_choice = "dxf" THEN <<"export_as_dxf">>
        ELSE <<>>)

WritesOf(k, kinds) == { w \in DOMAIN writes : writes[w].img = k /\ writes[w].by \in kinds }

\* C8: per image the stages run in the order classify, detect_edges,
\* detect_lines, draw_floor_plan, write raster, then at most one vector
\* exporter, only when vector_format is 'yes' and the one vector_choice names;
\* the raster is written exactly once and before any vector document.
C8_FanOutPerImage ==
    /\ \A k \in DOMAIN trace : IsPrefix(trace[k], StagesExpected)
    /\ \A k \in DOMAIN trace :
         (k < i \/ pc \in {"for", "done"}) => trace[k] = StagesExpected
    /\ \A k \in DOMAIN trace :
         LET rasters == WritesOf(k, {"write_raster"})
             vectors == WritesOf(k, {"export_as_svg", "export_as_json", "export_as_dxf"})
         IN  /\ Cardinality(rasters) <= 1
             /\ Cardinality(vectors) <= 1
             /\ (Len(trace[k]) >= 5) => Cardinality(rasters) = 1
             /\ \A v \in vectors : \E r \in rasters : r < v

\* C8's case: a run of two images, both exported as DXF after their raster
C8_Witness ==
    /\ pc = "done"
    /\ Len(trace) = 2
    /\ args.vector_format = "yes" /\ args.vector_choice = "dxf"
    /\ trace[2] = StagesExpected
    /\ Len(writes) = 4

YamlLoads(f) == f.exists /\ EndsWith(f.name, "yaml") /\ f.wellformed

\* an input image or the calibration file of this run cannot be loaded
LoadFails ==
    /\ imageDirExists
    /\ \/ \E k \in DOMAIN dirlist : EndsWith(dirlist[k].name, "pgm") /\ ~dirlist[k].decodable
       \/ ~YamlLoads(yamlFile)

\* C10: a failing load aborts the run before any image is classified and
\* before any output file or directory is created; and once an image's
\* processing has raised, nothing more is processed or written.
C10_AbortOnFirstError ==
    /\ [](LoadFails => /\ pc \in {"listdir", "load", "error"}
                       /\ trace = <<>> /\ writes = <<>>
                       /\ outDirExists = outDirInitially)
    /\ [][pc = "error" => UNCHANGED <<pc, i, trace, writes, outDirExists>>]_vars
    /\ [](pc = "error" => /\ Len(trace) <= i
                          /\ \A k \in DOMAIN writes : writes[k].img <= i)

\* C10's case: the second of two images cannot be decoded and the run has aborted
C10_Witness ==
    /\ pc = "error" /\ errAt = "load_image"
    /\ Len(image_paths) = 2
    /\ image_paths[1].decodable /\ ~image_paths[2].decodable
    /\ YamlLoads(yamlFile)
    /\ ~outDirInitially

====
